---- MODULE Spec2Model ----
(***************************************************************************)
(* Booking / room-status lifecycle of the Stayclever hotel front-end.      *)
(*                                                                         *)
(* The backend tables (rooms, guests, transactions) are shared state.      *)
(* A client is one browser session: it holds query caches (the list of     *)
(* available rooms of the booking form, the guest list), runs one mutation *)
(* at a time, and owns the cleaning timers it has scheduled.  Every        *)
(* awaited backend call of a mutation function is one step.  A backend     *)
(* write is either accepted (applied, no error) or rejected (error         *)
(* returned, nothing applied).                                             *)
(*                                                                         *)
(* The session of another staff member works on the same tables between    *)
(* the steps of the client.  Its operations are the same mutation          *)
(* functions; a run of one of them that succeeds is one step here.         *)
(*                                                                         *)
(* roomsPage is the rooms page of a browser: the time zone of the browser,  *)
(* the date selected in its calendar and the statuses it displays.         *)
(*                                                                         *)
(* profiles and userActivities are the tables of the accounts.  A browser   *)
(* has a backend session (authSession, the id of the signed-in user or "") *)
(* and the state of its AuthProvider: currentUser and users, as loaded.     *)
(*                                                                         *)
(* Dates are day numbers; 0 stands for the empty string / null.  A Date    *)
(* object is its time value in milliseconds; 0 stands for undefined.       *)
(* Texts are sequences of one-character strings.                           *)
(***************************************************************************)
EXTENDS Integers, Sequences, FiniteSets, TLC

VARIABLES rooms, bookings, transactions, roomsCache, guestsCache, pc, op, timers,
          roomsPage, profiles, userActivities, authSession, currentUser, users

vars == <<rooms, bookings, transactions, roomsCache, guestsCache, pc, op, timers,
          roomsPage, profiles, userActivities, authSession, currentUser, users>>

\* the tables and the state of the auth context
authVars == <<profiles, userActivities, authSession, currentUser, users>>

(***************************************************************************)
(* Bounds.                                                                 *)
(***************************************************************************)
MaxBookings == 2
MaxFormBookings == 1
MaxActivities == 1

(***************************************************************************)
(* Program constants.                                                      *)
(***************************************************************************)
MutationRetry == 1
MsPerDay == 86400000

Clients == {"c1"}
OtherStaff == "other"
Sessions == Clients \cup {OtherStaff}
Rooms == {"r1", "r2"}
RoomPrices == {0, 500}
RoomTypes == {"t1", "t2"}
RoomStatus == {"available", "occupied", "cleaning", "reserved"}
BookingStatus == {"reservation", "checked-in", "checked-out"}
FormBookingStatus == {"reservation", "checked-in"}
Days == {1, 2}
FormDays == {1, 3}
TextInputs == {<<>>, <<" ">>, <<"a">>}

(***************************************************************************)
(* Pure helpers.                                                           *)
(***************************************************************************)
RECURSIVE TrimStart(_)
TrimStart(s) == IF s # <<>> /\ Head(s) = " " THEN TrimStart(Tail(s)) ELSE s

RECURSIVE TrimEnd(_)
TrimEnd(s) ==
  IF s # <<>> /\ s[Len(s)] = " " THEN TrimEnd(SubSeq(s, 1, Len(s) - 1)) ELSE s

\* String.prototype.trim
Trim(s) == TrimEnd(TrimStart(s))

\* new Date(value).getTime() of a date-only string: midnight UTC of that day
GetTime(d) == d * MsPerDay

\* Math.ceil(a / b) for b > 0
Ceil(a, b) == IF a % b = 0 THEN a \div b ELSE (a \div b) + 1

\* variant: the day of check-out is counted as a night
NightsWithCheckOutDay(checkInDate, checkOutDate) ==
  IF checkInDate = 0 \/ checkOutDate = 0 THEN 0
  ELSE LET diff == GetTime(checkOutDate) - GetTime(checkInDate) + MsPerDay
       IN  IF diff > 0 THEN Ceil(diff, MsPerDay) ELSE 0

\* nights: 0 when a date is missing or checkOut is not after checkIn
Nights(checkInDate, checkOutDate) ==
  IF checkInDate = 0 \/ checkOutDate = 0 THEN 0
  ELSE LET diff == GetTime(checkOutDate) - GetTime(checkInDate)
       IN  IF diff > 0 THEN Ceil(diff, MsPerDay) ELSE 0

\* a RoomOption of the booking form; NoRoom stands for null
RoomOption(r) ==
  [id |-> r, price |-> rooms[r].price, status |-> rooms[r].status, typeId |-> rooms[r].typeId]

NoRoom == [id |-> "", price |-> 0, status |-> "", typeId |-> ""]

\* variant: the stored status of the room is read again at submission
SelectedRoomIfStillAvailable(c, selectedRoomId) ==
  IF /\ selectedRoomId # ""
     /\ \E o \in roomsCache[c] : o.id = selectedRoomId
     /\ rooms[selectedRoomId].status = "available"
  THEN CHOOSE o \in roomsCache[c] : o.id = selectedRoomId
  ELSE NoRoom

\* selectedRoom: the room of the cached list with the selected id, or null
SelectedRoom(c, selectedRoomId) ==
  IF selectedRoomId # "" /\ \E o \in roomsCache[c] : o.id = selectedRoomId
  THEN CHOOSE o \in roomsCache[c] : o.id = selectedRoomId
  ELSE NoRoom

\* roomTypeOptions: the types of the available rooms of the list, each with the
\* lowest price among them
RoomTypeOptions(c) ==
  {[id |-> o.typeId, price |-> o.price] :
     o \in {x \in roomsCache[c] :
              /\ x.status = "available"
              /\ x.typeId # ""
              /\ \A y \in roomsCache[c] :
                   (y.status = "available" /\ y.typeId = x.typeId) => x.price <= y.price}}

\* availableRoomsForSelectedType: what the room selector offers
AvailableRoomsForSelectedType(c, selectedRoomTypeId) ==
  {o \in roomsCache[c] : o.status = "available" /\ o.typeId = selectedRoomTypeId}

\* calculatedPrice
CalculatedPrice(selectedRoom, nights) ==
  IF selectedRoom = NoRoom \/ nights = 0 THEN 0 ELSE selectedRoom.price * nights

\* native constraint validation of the form: inputs marked required are non-empty
BrowserAccepts(name, phone, checkInDate, checkOutDate) ==
  name # <<>> /\ phone # <<>> /\ checkInDate # 0 /\ checkOutDate # 0

\* the checks of handleAddGuest before the payload is built
FormAccepted(selectedRoomTypeId, selectedRoom, nights) ==
  ~(selectedRoomTypeId = "" \/ selectedRoom = NoRoom \/ nights <= 0)

\* variant: the amount is not looked at
ShouldCreateTransactionAnyPrice(p) == p.bookingStatus = "checked-in"

ShouldCreateTransaction(p) == p.bookingStatus = "checked-in" /\ p.totalPrice > 0

\* variant: the status is left out of the update
RoomUpdatesDatesOnly(room, p) ==
  [room EXCEPT !.reservationDate = p.checkIn, !.checkOutDate = p.checkOut]

\* roomUpdates of addGuestMutation, applied to the stored room
RoomUpdates(room, p) ==
  [room EXCEPT !.reservationDate = p.checkIn,
               !.checkOutDate = p.checkOut,
               !.status = IF p.bookingStatus = "checked-in" THEN "occupied"
                          ELSE IF p.bookingStatus = "reservation" THEN "reserved"
                          ELSE @]

\* variant: the price per night is read from the stored room when the row is written
GuestRowAtCurrentPrice(p) ==
  [name |-> p.name, phone |-> p.phone, checkIn |-> p.checkIn, checkOut |-> p.checkOut,
   nights |-> p.nights, pricePerNight |-> rooms[p.roomId].price, totalPrice |-> p.totalPrice,
   bookingStatus |-> p.bookingStatus, roomId |-> p.roomId]

\* the row inserted into guests
GuestRow(p) ==
  [name |-> p.name, phone |-> p.phone, checkIn |-> p.checkIn, checkOut |-> p.checkOut,
   nights |-> p.nights, pricePerNight |-> p.pricePerNight, totalPrice |-> p.totalPrice,
   bookingStatus |-> p.bookingStatus, roomId |-> p.roomId]

\* the row inserted into transactions
IncomeTransaction(p) ==
  [type |-> "income", amount |-> p.totalPrice, category |-> "Kamar", date |-> p.checkIn]

\* variant: the update has no .eq("id", guestId) filter
CheckedOutAllRows(rows, guestId) ==
  [i \in 1..Len(rows) |-> [rows[i] EXCEPT !.bookingStatus = "checked-out"]]

\* the guests table after update({ booking_status: "checked-out" }).eq("id", guestId)
CheckedOut(rows, guestId) ==
  [rows EXCEPT ![guestId].bookingStatus = "checked-out"]

\* variant: the dates are left on the room
ResetRoomKeepDates(room) == [room EXCEPT !.status = "available"]

\* variant: a timer is scheduled for the reset to run again
CleaningTimersWithRetry(scheduled, s, r) == (scheduled \ {<<s, r>>}) \cup {<<s, r, "retry">>}

\* the timers left when the callback of <<s, r>> has run: setTimeout runs it once
CleaningTimersAfter(scheduled, s, r) == scheduled \ {<<s, r>>}

\* the room after the delayed reset of checkoutMutation
ResetRoom(room) ==
  [room EXCEPT !.status = "available", !.reservationDate = 0, !.checkOutDate = 0]

(***************************************************************************)
(* The record of a client's current (or last finished) operation.          *)
(*   failureCount  react-query's count of failed attempts of the mutation  *)
(*   inserted      number of booking rows this operation has inserted      *)
(*   rejected      the table whose write was rejected last, if any         *)
(*   result        none | pending | success | error | refused | notfound   *)
(*                 | invalid                                               *)
(*   err           the value the caller's catch block received             *)
(*   invalidated   the query keys the onSuccess callbacks have invalidated *)
(***************************************************************************)
NoOp ==
  [kind |-> "none", name |-> <<>>, phone |-> <<>>, checkIn |-> 0, checkOut |-> 0,
   nights |-> 0, bookingStatus |-> "reservation", roomId |-> "", pricePerNight |-> 0,
   totalPrice |-> 0, guestId |-> 0, failureCount |-> 0, inserted |-> 0,
   rejected |-> "", result |-> "none", err |-> "none", invalidated |-> {}]

\* the payload handleAddGuest builds
Payload(nameInput, phoneInput, checkInDate, checkOutDate, bookingStatus, selectedRoom) ==
  [NoOp EXCEPT !.kind = "add",
               !.name = Trim(nameInput),
               !.phone = Trim(phoneInput),
               !.checkIn = checkInDate,
               !.checkOut = checkOutDate,
               !.nights = Nights(checkInDate, checkOutDate),
               !.bookingStatus = bookingStatus,
               !.roomId = selectedRoom.id,
               !.pricePerNight = selectedRoom.price,
               !.totalPrice = CalculatedPrice(selectedRoom, Nights(checkInDate, checkOutDate)),
               !.result = "pending"]

(***************************************************************************)
(* Effective status of the rooms page.                                     *)
(***************************************************************************)
\* the time zones a browser may be in: local time minus UTC, in milliseconds
\* (six hours west of UTC, UTC, six hours east of UTC)
TimezoneOffsets == {-(MsPerDay \div 4), 0, MsPerDay \div 4}

\* date.setHours(0, 0, 0, 0): midnight, in the browser's time zone, of the local
\* day the time value t falls on
SetHoursZero(t) ==
  ((t + roomsPage.timezoneOffset) \div MsPerDay) * MsPerDay - roomsPage.timezoneOffset

\* the Date the calendar hands over for a day: midnight of the day, local time
CalendarDate(day) == day * MsPerDay - roomsPage.timezoneOffset

\* new Date() in the course of a day: noon of the day, local time
Now(day) == CalendarDate(day) + (MsPerDay \div 2)

\* the rows of reservationsByRoom.get(roomId) for the selected date (0: none selected)
ReservationsByRoom(reservationsData, selectedDate, roomId) ==
  IF selectedDate = 0 THEN {}
  ELSE LET target == SetHoursZero(selectedDate)
       IN  {i \in 1..Len(reservationsData) :
              /\ reservationsData[i].roomId = roomId
              /\ reservationsData[i].checkIn # 0
              /\ reservationsData[i].checkOut # 0
              /\ target >= SetHoursZero(GetTime(reservationsData[i].checkIn))
              /\ target <= SetHoursZero(GetTime(reservationsData[i].checkOut))}

\* variant: the reservations of the date are looked at before the cleaning status
GetDisplayStatusReservationsFirst(roomId, room, reservationsData, selectedDate) ==
  LET todaysReservations == ReservationsByRoom(reservationsData, selectedDate, roomId)
  IN  IF todaysReservations # {}
      THEN IF \E i \in todaysReservations : reservationsData[i].bookingStatus = "checked-in"
           THEN "occupied"
           ELSE "reserved"
      ELSE room.status

\* getDisplayStatus of the rooms page
GetDisplayStatus(roomId, room, reservationsData, selectedDate) ==
  IF room.status = "cleaning" THEN "cleaning"
  ELSE IF selectedDate = 0 THEN room.status
  ELSE LET todaysReservations == ReservationsByRoom(reservationsData, selectedDate, roomId)
       IN  IF todaysReservations = {} THEN room.status
           ELSE IF \E i \in todaysReservations :
                     reservationsData[i].bookingStatus = "checked-in"
                THEN "occupied"
                ELSE "reserved"

\* a room as addRoomMutation inserts it
NewRoom(price, typeId) ==
  [status |-> "available", reservationDate |-> 0, checkOutDate |-> 0,
   price |-> price, typeId |-> typeId]

\* the rooms page before it is opened, in a browser on UTC
RoomsPageClosed == [timezoneOffset |-> 0, selectedDate |-> 0, displayStatus |-> <<>>]

\* the lifecycle specification: a hotel of one room
(***************************************************************************)
(* Accounts, roles and the row level security policies of the tables.      *)
(***************************************************************************)
Users == {"u1", "u2"}
Roles == {"owner", "manager", "staff"}

\* currentUser = null
NoUser == [id |-> "", role |-> ""]

\* toPublicUser of the row of id in a result, null when there is no row
\* (maybeSingle)
ToPublicUser(table, id) ==
  IF id \in DOMAIN table THEN [id |-> id, role |-> table[id]] ELSE NoUser

PublicUser(id) == ToPublicUser(profiles, id)

\* setUsers([]): the list of users maps the id of each loaded user to the role
\* it was loaded with
NoUsers == [u \in {} |-> ""]

\* exists (select 1 from profiles p where p.id = auth.uid() and p.role in roles)
HasRole(uid, roles) == uid \in DOMAIN profiles /\ profiles[uid] \in roles

\* the policies for writes to a table, for the session of uid (auth.uid()); a
\* write to user_activities or profiles is a write of the row of userId
PolicyAccepts(table, uid, userId) ==
  CASE table \in {"rooms", "guests"} -> HasRole(uid, {"owner", "manager"})
    [] table = "transactions" -> HasRole(uid, {"owner"})
    [] table = "user_activities" -> uid # "" /\ uid = userId
    [] table = "profiles" -> (uid # "" /\ uid = userId) \/ HasRole(uid, {"owner"})

\* the session of an owner with the auth context loaded, in every browser
OwnerSignedIn ==
  /\ profiles = [u \in {"u1"} |-> "owner"]
  /\ userActivities = <<>>
  /\ authSession = [c \in Clients |-> "u1"]
  /\ currentUser = [c \in Clients |-> [id |-> "u1", role |-> "owner"]]
  /\ users = [c \in Clients |-> [u \in {"u1"} |-> "owner"]]

Init ==
  /\ rooms = [r \in {"r1"} |-> NewRoom(500, "t1")]
  /\ bookings = <<>>
  /\ transactions = <<>>
  /\ roomsCache = [c \in Clients |-> {}]
  /\ guestsCache = [c \in Clients |-> <<>>]
  /\ pc = [c \in Clients |-> "idle"]
  /\ op = [c \in Clients |-> NoOp]
  /\ timers = {}
  /\ roomsPage = RoomsPageClosed
  /\ OwnerSignedIn

(***************************************************************************)
(* Query (re)fetches.                                                      *)
(***************************************************************************)
\* variant: the query has no filter on the status
RefetchRoomsOfAnyStatus(c) ==
  /\ roomsCache' = [roomsCache EXCEPT ![c] = {RoomOption(r) : r \in DOMAIN rooms}]
  /\ UNCHANGED <<rooms, bookings, transactions, guestsCache, pc, op, timers>>
  /\ UNCHANGED <<roomsPage, authVars>>

\* rooms query of the booking form: select ... from rooms where status = 'available'
RefetchRooms(c) ==
  /\ roomsCache' = [roomsCache EXCEPT ![c] =
                      {RoomOption(r) : r \in {x \in DOMAIN rooms : rooms[x].status = "available"}}]
  /\ UNCHANGED <<rooms, bookings, transactions, guestsCache, pc, op, timers>>
  /\ UNCHANGED <<roomsPage, authVars>>

\* guests query: the booking_status of every row, by row
RefetchGuests(c) ==
  /\ guestsCache' = [guestsCache EXCEPT ![c] =
                       [i \in 1..Len(bookings) |-> bookings[i].bookingStatus]]
  /\ UNCHANGED <<rooms, bookings, transactions, roomsCache, pc, op, timers>>
  /\ UNCHANGED <<roomsPage, authVars>>

(***************************************************************************)
(* The retry loop of a mutation (QueryClient default mutations.retry).     *)
(***************************************************************************)
\* what is kept of an operation once mutateAsync has settled
Settled(o, result, err) ==
  [NoOp EXCEPT !.kind = o.kind, !.rejected = o.rejected, !.result = result, !.err = err]

\* the write to table was rejected and the mutation function threw err;
\* first is the function's first step, run again when react-query retries
MutationFailed(c, first, err, table) ==
  LET o == [op[c] EXCEPT !.rejected = table] IN
  IF o.failureCount < MutationRetry
  THEN /\ pc' = [pc EXCEPT ![c] = first]
       /\ op' = [op EXCEPT ![c] = [o EXCEPT !.failureCount = @ + 1]]
  ELSE /\ pc' = [pc EXCEPT ![c] = "idle"]
       /\ op' = [op EXCEPT ![c] = Settled(o, "error", err)]

\* the queries of the client that read rooms, guests, transactions or aggregates
\* of them, by query key; a key of useSupabaseQuery is [table, select, filters]
QueryKeys ==
  {<<"rooms", "select", "filters">>, <<"guests", "select", "filters">>,
   <<"rooms">>, <<"room-reservations">>, <<"transactions">>,
   <<"dashboard-metrics">>, <<"recent-guests">>, <<"recent-transactions">>,
   <<"reports", "room-type-occupancy">>, <<"reports", "weekly-trend">>,
   <<"reports", "monthly-summary">>}

\* a filter of invalidateQueries
QueryFilter(queryKey, exact) == [queryKey |-> queryKey, exact |-> exact]

\* react-query's match of a query key against a filter: the same key when exact,
\* the filter's key as a prefix otherwise
MatchQuery(filter, key) ==
  IF filter.exact THEN key = filter.queryKey
  ELSE /\ Len(filter.queryKey) <= Len(key)
       /\ SubSeq(key, 1, Len(filter.queryKey)) = filter.queryKey

\* the invalidateQueries calls after a successful mutation of the kind: those of
\* useSupabaseMutation for the option invalidateQueries, then those of onSuccess
InvalidateQueries(kind) ==
  IF kind = "add"
  THEN {QueryFilter(<<t>>, FALSE) : t \in {"guests", "rooms", "transactions"}}
       \cup {QueryFilter(k, TRUE) :
               k \in {<<"guests">>, <<"rooms", "booking">>, <<"rooms">>,
                      <<"dashboard-metrics">>, <<"recent-guests">>, <<"team-activities">>,
                      <<"reports", "room-type-occupancy">>, <<"recent-transactions">>,
                      <<"reports", "weekly-trend">>, <<"reports", "monthly-summary">>,
                      <<"transactions">>}}
  ELSE {QueryFilter(<<t>>, FALSE) : t \in {"guests", "rooms"}}

\* the queries invalidated by the calls
Invalidated(filters) == {k \in QueryKeys : \E f \in filters : MatchQuery(f, k)}

\* mutateAsync resolves: handleAddGuest goes on to record the activity of the
\* user, if (currentUser); handleCheckout is done
MutationSucceeded(c, o) ==
  /\ pc' = [pc EXCEPT ![c] = IF o.kind = "add" /\ currentUser[c] # NoUser
                             THEN "add_activity" ELSE "idle"]
  /\ op' = [op EXCEPT ![c] = [Settled(o, "success", "none") EXCEPT
                                !.invalidated = Invalidated(InvalidateQueries(o.kind))]]

(***************************************************************************)
(* Booking creation.                                                       *)
(***************************************************************************)
HandleAddGuestFrom(c, texts, days) ==
  /\ pc[c] = "idle"
  /\ \E selectedRoomTypeId \in RoomTypes \cup {""}, selectedRoomId \in DOMAIN rooms \cup {""},
        checkInDate \in days \cup {0}, checkOutDate \in days \cup {0},
        nameInput \in texts, phoneInput \in texts,
        bookingStatus \in FormBookingStatus :
       \* the room selector is reset when the type changes and offers rooms of the type only
       /\ selectedRoomId # "" => rooms[selectedRoomId].typeId = selectedRoomTypeId
       /\ BrowserAccepts(nameInput, phoneInput, checkInDate, checkOutDate)
       /\ LET selectedRoom == SelectedRoom(c, selectedRoomId)
              nights == Nights(checkInDate, checkOutDate)
          IN  IF FormAccepted(selectedRoomTypeId, selectedRoom, nights)
              THEN /\ op' = [op EXCEPT ![c] =
                               Payload(nameInput, phoneInput, checkInDate, checkOutDate,
                                       bookingStatus, selectedRoom)]
                   /\ pc' = [pc EXCEPT ![c] = "add_guest"]
              ELSE /\ op' = [op EXCEPT ![c] = [NoOp EXCEPT !.kind = "add", !.result = "invalid"]]
                   /\ UNCHANGED pc
  /\ UNCHANGED <<rooms, bookings, transactions, roomsCache, guestsCache, timers>>
  /\ UNCHANGED <<roomsPage, authVars>>

\* the form as the lifecycle specification fills it in
HandleAddGuest(c) == HandleAddGuestFrom(c, {<<"a">>}, Days)

\* the form with blank texts and longer stays
HandleAddGuestForm(c) == HandleAddGuestFrom(c, TextInputs, FormDays)

\* supabase.from("guests").insert(...)
AddGuestInsertUpTo(c, max) ==
  /\ pc[c] = "add_guest"
  /\ \/ /\ Len(bookings) < max
        /\ PolicyAccepts("guests", authSession[c], "")
        /\ bookings' = Append(bookings, GuestRow(op[c]))
        /\ op' = [op EXCEPT ![c].inserted = @ + 1]
        /\ pc' = [pc EXCEPT ![c] = "add_room"]
     \/ /\ MutationFailed(c, "add_guest", "error", "guests")
        /\ UNCHANGED bookings
  /\ UNCHANGED <<rooms, transactions, roomsCache, guestsCache, timers>>
  /\ UNCHANGED <<roomsPage, authVars>>

AddGuestInsert(c) == AddGuestInsertUpTo(c, MaxBookings)

AddGuestInsertForm(c) == AddGuestInsertUpTo(c, MaxFormBookings)

\* supabase.from("rooms").update(roomUpdates).eq("id", roomId)
AddGuestRoomUpdate(c) ==
  /\ pc[c] = "add_room"
  /\ LET p == op[c] IN
     \/ \* an update that the policy keeps from the row changes nothing, without error
        /\ rooms' = IF PolicyAccepts("rooms", authSession[c], "")
                    THEN [rooms EXCEPT ![p.roomId] = RoomUpdates(@, p)]
                    ELSE rooms
        /\ IF ShouldCreateTransaction(p)
           THEN /\ pc' = [pc EXCEPT ![c] = "add_tx"]
                /\ UNCHANGED op
           ELSE MutationSucceeded(c, p)
     \/ /\ MutationFailed(c, "add_guest", "error", "rooms")
        /\ UNCHANGED rooms
  /\ UNCHANGED <<bookings, transactions, roomsCache, guestsCache, timers>>
  /\ UNCHANGED <<roomsPage, authVars>>

\* supabase.from("transactions").insert(...)
AddGuestTxInsert(c) ==
  /\ pc[c] = "add_tx"
  /\ LET p == op[c] IN
     \/ /\ PolicyAccepts("transactions", authSession[c], "")
        /\ transactions' = Append(transactions, IncomeTransaction(p))
        /\ MutationSucceeded(c, p)
     \/ /\ MutationFailed(c, "add_guest", "error", "transactions")
        /\ UNCHANGED transactions
  /\ UNCHANGED <<rooms, bookings, roomsCache, guestsCache, timers>>
  /\ UNCHANGED <<roomsPage, authVars>>

\* the row supabase.from("user_activities").insert({ user_id, message }) adds
ActivityRow(userId, message) == [userId |-> userId, message |-> message]

\* the insert of an activity of userId by browser c is accepted
ActivityInsertAccepted(c, userId) ==
  /\ Len(userActivities) < MaxActivities
  /\ userId \in DOMAIN profiles
  /\ PolicyAccepts("user_activities", authSession[c], userId)

\* currentUser and users of browser c after loadCurrentUser(userId)
\* loadCurrentUser(userId) reading the profiles table, with list the users
\* loaded before
LoadCurrentUserFrom(table, list, userId) ==
  LET mapped == IF userId = "" THEN NoUser ELSE ToPublicUser(table, userId) IN
  [currentUser |-> mapped,
   users |-> IF mapped = NoUser THEN NoUsers
             ELSE IF mapped.role # "owner" THEN [u \in {userId} |-> mapped.role]
             ELSE list]

LoadCurrentUser(c, userId) == LoadCurrentUserFrom(profiles, users[c], userId)

\* variant: a failure to record the activity is reported as a failed creation
RecordGuestActivityOrFail(c) ==
  /\ pc[c] = "add_activity"
  /\ pc' = [pc EXCEPT ![c] = "idle"]
  /\ \/ /\ ActivityInsertAccepted(c, currentUser[c].id)
        /\ userActivities' =
             Append(userActivities, ActivityRow(currentUser[c].id, "Menerima tamu"))
        /\ UNCHANGED op
     \/ /\ op' = [op EXCEPT ![c].result = "error"]
        /\ UNCHANGED userActivities
  /\ UNCHANGED <<currentUser, users>>
  /\ UNCHANGED <<rooms, bookings, transactions, roomsCache, guestsCache, timers>>
  /\ UNCHANGED <<roomsPage, profiles, authSession>>

\* handleAddGuest after mutateAsync: recordActivity(currentUser.id, ...) inside
\* try/catch; recordActivityInternal inserts the row and reloads the user
RecordGuestActivity(c) ==
  /\ pc[c] = "add_activity"
  /\ pc' = [pc EXCEPT ![c] = "idle"]
  /\ LET userId == currentUser[c].id IN
     \/ /\ ActivityInsertAccepted(c, userId)
        /\ userActivities' = Append(userActivities, ActivityRow(userId, "Menerima tamu"))
        /\ \/ /\ currentUser' = [currentUser EXCEPT ![c] = LoadCurrentUser(c, userId).currentUser]
              /\ users' = [users EXCEPT ![c] = LoadCurrentUser(c, userId).users]
           \/ \* loadCurrentUser throws
              UNCHANGED <<currentUser, users>>
     \/ \* the insert is rejected and recordActivityInternal throws
        UNCHANGED <<userActivities, currentUser, users>>
  /\ UNCHANGED <<rooms, bookings, transactions, roomsCache, guestsCache, op, timers>>
  /\ UNCHANGED <<roomsPage, profiles, authSession>>

(***************************************************************************)
(* Checkout.                                                               *)
(***************************************************************************)
\* variant: the booking status is not looked at
CheckoutAllowedAnyStatus(c, guestId) == guestId \in 1..Len(guestsCache[c])

\* the guard of handleCheckout, on the client's guest list
CheckoutAllowed(c, guestId) ==
  /\ guestId \in 1..Len(guestsCache[c])
  /\ guestsCache[c][guestId] = "checked-in"

HandleCheckout(c, guestId) ==
  /\ pc[c] = "idle"
  /\ IF CheckoutAllowed(c, guestId)
     THEN /\ op' = [op EXCEPT ![c] = [NoOp EXCEPT !.kind = "checkout", !.guestId = guestId,
                                                  !.roomId = bookings[guestId].roomId,
                                                  !.result = "pending"]]
          /\ pc' = [pc EXCEPT ![c] = "co_guest"]
     ELSE /\ op' = [op EXCEPT ![c] =
                      [NoOp EXCEPT !.kind = "checkout",
                                   !.result = IF guestId \in 1..Len(guestsCache[c])
                                              THEN "refused" ELSE "notfound"]]
          /\ UNCHANGED pc
  /\ UNCHANGED <<rooms, bookings, transactions, roomsCache, guestsCache, timers>>
  /\ UNCHANGED <<roomsPage, authVars>>

\* supabase.from("guests").update({ booking_status: "checked-out" }).eq("id", guestId)
CheckoutGuestUpdate(c) ==
  /\ pc[c] = "co_guest"
  /\ \/ /\ bookings' = CheckedOut(bookings, op[c].guestId)
        /\ pc' = [pc EXCEPT ![c] = "co_room"]
        /\ UNCHANGED op
     \/ /\ MutationFailed(c, "co_guest", "error", "guests")
        /\ UNCHANGED bookings
  /\ UNCHANGED <<rooms, transactions, roomsCache, guestsCache, timers>>
  /\ UNCHANGED <<roomsPage, authVars>>

\* supabase.from("rooms").update({ status: "cleaning" }).eq("id", roomId), then setTimeout
CheckoutRoomUpdate(c) ==
  /\ pc[c] = "co_room"
  /\ LET p == op[c] IN
     \/ /\ rooms' = [rooms EXCEPT ![p.roomId].status = "cleaning"]
        /\ timers' = timers \cup {<<c, p.roomId>>}
        /\ MutationSucceeded(c, p)
     \/ \* if (roomError) throw error;  -- error is the null result of the first call
        /\ MutationFailed(c, "co_guest", "null", "rooms")
        /\ UNCHANGED <<rooms, timers>>
  /\ UNCHANGED <<bookings, transactions, roomsCache, guestsCache>>
  /\ UNCHANGED <<roomsPage, authVars>>

\* the setTimeout callback of a checkout run by session s
CleaningTimerFires(s, r) ==
  /\ <<s, r>> \in timers
  /\ timers' = CleaningTimersAfter(timers, s, r)
  /\ \/ rooms' = [rooms EXCEPT ![r] = ResetRoom(@)]
     \/ UNCHANGED rooms
  /\ UNCHANGED <<bookings, transactions, roomsCache, guestsCache, pc, op>>
  /\ UNCHANGED <<roomsPage, authVars>>

\* the page is closed or reloaded: timers, caches and a running mutation are gone
ClientTerminates(c) ==
  /\ timers' = {t \in timers : t[1] # c}
  /\ roomsCache' = [roomsCache EXCEPT ![c] = {}]
  /\ guestsCache' = [guestsCache EXCEPT ![c] = <<>>]
  /\ pc' = [pc EXCEPT ![c] = "idle"]
  /\ op' = [op EXCEPT ![c] = NoOp]
  /\ UNCHANGED <<rooms, bookings, transactions>>
  /\ UNCHANGED <<roomsPage, authVars>>

(***************************************************************************)
(* Manual room status update (rooms page), by any session.                 *)
(***************************************************************************)
\* variant: the dates of the room are cleared with a status of available
UpdateRoomStatusClearingDates(roomId, newStatus) ==
  /\ rooms' = [rooms EXCEPT ![roomId] =
                 IF newStatus = "available" THEN ResetRoom(@) ELSE [@ EXCEPT !.status = newStatus]]
  /\ UNCHANGED <<bookings, transactions, roomsCache, guestsCache, pc, op, timers>>
  /\ UNCHANGED <<roomsPage, authVars>>

\* updateStatusMutation: supabase.from("rooms").update({ status }).eq("id", id)
UpdateRoomStatus(roomId, newStatus) ==
  /\ rooms' = [rooms EXCEPT ![roomId].status = newStatus]
  /\ UNCHANGED <<bookings, transactions, roomsCache, guestsCache, pc, op, timers>>
  /\ UNCHANGED <<roomsPage, authVars>>

(***************************************************************************)
(* The other staff member's session.                                       *)
(***************************************************************************)
\* a booking creation of the other session that succeeds.  Its room list was
\* fetched when the room was available (every room is, initially).
OtherStaffAddGuest ==
  /\ Len(bookings) < MaxBookings
  /\ \E r \in DOMAIN rooms, checkInDate \in Days, checkOutDate \in Days,
        bookingStatus \in FormBookingStatus :
       /\ Nights(checkInDate, checkOutDate) > 0
       /\ LET p == Payload(<<"a">>, <<"a">>, checkInDate, checkOutDate,
                           bookingStatus, RoomOption(r))
          IN  /\ bookings' = Append(bookings, GuestRow(p))
              /\ rooms' = [rooms EXCEPT ![r] = RoomUpdates(@, p)]
              /\ transactions' = IF ShouldCreateTransaction(p)
                                 THEN Append(transactions, IncomeTransaction(p))
                                 ELSE transactions
  /\ UNCHANGED <<roomsCache, guestsCache, pc, op, timers>>
  /\ UNCHANGED <<roomsPage, authVars>>

\* a checkout of the other session that succeeds.  Its guest list showed the
\* booking as checked-in when it was fetched.
OtherStaffCheckout(guestId) ==
  /\ guestId \in 1..Len(bookings)
  /\ bookings[guestId].bookingStatus # "reservation"
  /\ bookings' = CheckedOut(bookings, guestId)
  /\ rooms' = [rooms EXCEPT ![bookings[guestId].roomId].status = "cleaning"]
  /\ timers' = timers \cup {<<OtherStaff, bookings[guestId].roomId>>}
  /\ UNCHANGED <<transactions, roomsCache, guestsCache, pc, op>>
  /\ UNCHANGED <<roomsPage, authVars>>

Next ==
  \/ \E c \in Clients : RefetchRooms(c)
  \/ \E c \in Clients : RefetchGuests(c)
  \/ \E c \in Clients : HandleAddGuest(c)
  \/ \E c \in Clients : AddGuestInsert(c)
  \/ \E c \in Clients : AddGuestRoomUpdate(c)
  \/ \E c \in Clients : AddGuestTxInsert(c)
  \/ \E c \in Clients : RecordGuestActivity(c)
  \/ \E c \in Clients, guestId \in 1..MaxBookings : HandleCheckout(c, guestId)
  \/ \E c \in Clients : CheckoutGuestUpdate(c)
  \/ \E c \in Clients : CheckoutRoomUpdate(c)
  \/ \E s \in Sessions, r \in DOMAIN rooms : CleaningTimerFires(s, r)
  \/ \E c \in Clients : ClientTerminates(c)
  \/ \E r \in DOMAIN rooms, s \in RoomStatus : UpdateRoomStatus(r, s)
  \/ OtherStaffAddGuest
  \/ \E guestId \in 1..MaxBookings : OtherStaffCheckout(guestId)

Spec == Init /\ [][Next]_vars

(***************************************************************************)
(* The booking form of one session, with every input it accepts, on a      *)
(* hotel of two rooms of two types; one of the rooms may be free of charge.*)
(***************************************************************************)
InitForm ==
  /\ \E price \in RoomPrices :
       rooms = [r \in Rooms |-> IF r = "r1" THEN NewRoom(500, "t1") ELSE NewRoom(price, "t2")]
  /\ bookings = <<>>
  /\ transactions = <<>>
  /\ roomsCache = [c \in Clients |-> {}]
  /\ guestsCache = [c \in Clients |-> <<>>]
  /\ pc = [c \in Clients |-> "idle"]
  /\ op = [c \in Clients |-> NoOp]
  /\ timers = {}
  /\ roomsPage = RoomsPageClosed
  /\ OwnerSignedIn

NextForm ==
  \/ \E c \in Clients : RefetchRooms(c)
  \/ \E c \in Clients : HandleAddGuestForm(c)
  \/ \E c \in Clients : AddGuestInsertForm(c)
  \/ \E c \in Clients : AddGuestRoomUpdate(c)
  \/ \E c \in Clients : AddGuestTxInsert(c)
  \/ \E c \in Clients : RecordGuestActivity(c)

SpecForm == InitForm /\ [][NextForm]_vars

(***************************************************************************)
(* Booking creation by a user of each role.                                *)
(***************************************************************************)
InitRoles ==
  /\ rooms = [r \in {"r1"} |-> NewRoom(500, "t1")]
  /\ bookings = <<>>
  /\ transactions = <<>>
  /\ roomsCache = [c \in Clients |-> {}]
  /\ guestsCache = [c \in Clients |-> <<>>]
  /\ pc = [c \in Clients |-> "idle"]
  /\ op = [c \in Clients |-> NoOp]
  /\ timers = {}
  /\ roomsPage = RoomsPageClosed
  /\ \E role \in Roles :
       /\ profiles = [u \in {"u1"} |-> role]
       /\ currentUser = [c \in Clients |-> [id |-> "u1", role |-> role]]
  /\ userActivities = <<>>
  /\ authSession = [c \in Clients |-> "u1"]
  /\ users = [c \in Clients |-> [u \in {"u1"} |-> profiles["u1"]]]

NextRoles ==
  \/ \E c \in Clients : RefetchRooms(c)
  \/ \E c \in Clients : HandleAddGuest(c)
  \/ \E c \in Clients : AddGuestInsertForm(c)
  \/ \E c \in Clients : AddGuestRoomUpdate(c)
  \/ \E c \in Clients : AddGuestTxInsert(c)
  \/ \E c \in Clients : RecordGuestActivity(c)

SpecRoles == InitRoles /\ [][NextRoles]_vars

(***************************************************************************)
(* The operations of one session on bookings, each of them taken again and *)
(* again: every backend call returns, and the staff member keeps using     *)
(* every operation the guests page offers.                                 *)
(***************************************************************************)
NextLifecycle ==
  \/ \E c \in Clients : RefetchRooms(c)
  \/ \E c \in Clients : RefetchGuests(c)
  \/ \E c \in Clients : HandleAddGuest(c)
  \/ \E c \in Clients : AddGuestInsertForm(c)
  \/ \E c \in Clients : AddGuestRoomUpdate(c)
  \/ \E c \in Clients : AddGuestTxInsert(c)
  \/ \E c \in Clients : RecordGuestActivity(c)
  \/ \E c \in Clients, guestId \in 1..MaxBookings : HandleCheckout(c, guestId)
  \/ \E c \in Clients : CheckoutGuestUpdate(c)
  \/ \E c \in Clients : CheckoutRoomUpdate(c)
  \/ \E s \in Sessions, r \in DOMAIN rooms : CleaningTimerFires(s, r)

FairLifecycle ==
  \A c \in Clients :
    /\ SF_vars(RefetchRooms(c))
    /\ SF_vars(RefetchGuests(c))
    /\ SF_vars(HandleAddGuest(c))
    /\ \A guestId \in 1..MaxBookings : SF_vars(HandleCheckout(c, guestId))
    /\ WF_vars(AddGuestInsertForm(c))
    /\ WF_vars(AddGuestRoomUpdate(c))
    /\ WF_vars(AddGuestTxInsert(c))
    /\ WF_vars(RecordGuestActivity(c))
    /\ WF_vars(CheckoutGuestUpdate(c))
    /\ WF_vars(CheckoutRoomUpdate(c))
    /\ \A r \in Rooms : WF_vars(CleaningTimerFires(c, r))

SpecLifecycle == Init /\ [][NextLifecycle]_vars /\ FairLifecycle

(***************************************************************************)
(* Room management on the rooms page, next to the booking form: rooms are  *)
(* added and edited while bookings are created.                            *)
(***************************************************************************)
\* what can be typed into the price input (a number input)
PriceInputs == {-500, 0, 500}

\* what the type selector of the room form may hold: nothing, or the one room type
RoomFormTypes == {"", "t1"}

\* native constraint validation of the room form: required, type="number" min={0}
BrowserAcceptsRoom(numberInput, price) == numberInput # <<>> /\ price >= 0

\* handleAddRoom, with the write of addRoomMutation or updateRoomMutation:
\* editingRoom is the room being edited, "" when a room is added
HandleAddRoom(editingRoom) ==
  /\ \E numberInput \in TextInputs, typeId \in RoomFormTypes, price \in PriceInputs :
       /\ BrowserAcceptsRoom(numberInput, price)
       /\ IF Trim(numberInput) = <<>> \/ typeId = ""
          THEN UNCHANGED rooms
          ELSE IF editingRoom # ""
          THEN \/ rooms' = [rooms EXCEPT ![editingRoom].price = price,
                                         ![editingRoom].typeId = typeId]
               \/ UNCHANGED rooms
          ELSE \/ \E id \in Rooms \ DOMAIN rooms :
                    rooms' = [r \in DOMAIN rooms \cup {id} |->
                                IF r = id THEN NewRoom(price, typeId) ELSE rooms[r]]
               \/ UNCHANGED rooms
  /\ UNCHANGED <<bookings, transactions, roomsCache, guestsCache, pc, op, timers>>
  /\ UNCHANGED <<roomsPage, authVars>>

NextRooms ==
  \/ \E editingRoom \in DOMAIN rooms \cup {""} : HandleAddRoom(editingRoom)
  \/ \E c \in Clients : RefetchRooms(c)
  \/ \E c \in Clients : HandleAddGuest(c)
  \/ \E c \in Clients : AddGuestInsertForm(c)
  \/ \E c \in Clients : AddGuestRoomUpdate(c)
  \/ \E c \in Clients : AddGuestTxInsert(c)
  \/ \E c \in Clients : RecordGuestActivity(c)

SpecRooms == Init /\ [][NextRooms]_vars

(***************************************************************************)
(* The rooms page over every room table and guests table of the bounds,    *)
(* in every time zone: the calendar and the statuses the page displays.    *)
(***************************************************************************)
DisplayDays == {1, 2, 3}

\* the stays of the rows: check-in before check-out
Stays == {st \in DisplayDays \X DisplayDays : st[1] < st[2]}

\* the rows the guests table may hold, in any booking status
ReservationRows ==
  {[GuestRow(Payload(<<"a">>, <<"a">>, st[1], st[2], "reservation", RoomOption(r)))
      EXCEPT !.bookingStatus = b] :
     r \in DOMAIN rooms, st \in Stays, b \in BookingStatus}

\* the values selectedDate may take: undefined, a day of the calendar, new Date()
SelectableDates ==
  {0} \cup {CalendarDate(d) : d \in DisplayDays} \cup {Now(d) : d \in DisplayDays}

InitDisplay ==
  /\ rooms \in [Rooms -> {[NewRoom(500, "t1") EXCEPT !.status = s] : s \in RoomStatus}]
  /\ bookings \in UNION {[1..n -> ReservationRows] : n \in 0..MaxBookings}
  /\ transactions = <<>>
  /\ roomsCache = [c \in Clients |-> {}]
  /\ guestsCache = [c \in Clients |-> <<>>]
  /\ pc = [c \in Clients |-> "idle"]
  /\ op = [c \in Clients |-> NoOp]
  /\ timers = {}
  /\ \E tz \in TimezoneOffsets : roomsPage = [RoomsPageClosed EXCEPT !.timezoneOffset = tz]
  /\ OwnerSignedIn

\* variant: the status derived for the date is written to the stored room
RenderRoomsStoringStatus ==
  /\ roomsPage.displayStatus # <<>>
  /\ rooms' = [r \in DOMAIN rooms |->
                 [rooms[r] EXCEPT !.status =
                    GetDisplayStatus(r, rooms[r], bookings, roomsPage.selectedDate)]]
  /\ UNCHANGED <<bookings, transactions, roomsCache, guestsCache, pc, op, timers, roomsPage>>
  /\ UNCHANGED authVars

\* another render of the open rooms page: rooms.map((room) => getDisplayStatus(room))
RenderRooms ==
  /\ roomsPage.displayStatus # <<>>
  /\ roomsPage' = [roomsPage EXCEPT !.displayStatus =
                     [r \in DOMAIN rooms |->
                        GetDisplayStatus(r, rooms[r], bookings, roomsPage.selectedDate)]]
  /\ UNCHANGED <<rooms, bookings, transactions, roomsCache, guestsCache, pc, op, timers>>
  /\ UNCHANGED authVars

\* the page is opened: useState(new Date()), then the first render
MountRoomsPage ==
  /\ roomsPage.displayStatus = <<>>
  /\ \E today \in DisplayDays :
       roomsPage' = [roomsPage EXCEPT
                       !.selectedDate = Now(today),
                       !.displayStatus =
                         [r \in DOMAIN rooms |->
                            GetDisplayStatus(r, rooms[r], bookings, Now(today))]]
  /\ UNCHANGED <<rooms, bookings, transactions, roomsCache, guestsCache, pc, op, timers>>
  /\ UNCHANGED authVars

\* a day is picked in the calendar: setSelectedDate(date ?? selectedDate), then the
\* render it causes (removing the selection keeps the date)
SelectDate ==
  /\ roomsPage.displayStatus # <<>>
  /\ \E date \in {CalendarDate(d) : d \in DisplayDays} :
       roomsPage' = [roomsPage EXCEPT
                       !.selectedDate = date,
                       !.displayStatus =
                         [r \in DOMAIN rooms |->
                            GetDisplayStatus(r, rooms[r], bookings, date)]]
  /\ UNCHANGED <<rooms, bookings, transactions, roomsCache, guestsCache, pc, op, timers>>
  /\ UNCHANGED authVars

NextDisplay ==
  \/ MountRoomsPage
  \/ SelectDate
  \/ RenderRooms

SpecDisplay == InitDisplay /\ [][NextDisplay]_vars

(***************************************************************************)
(* Steps of an operation, as the properties below name them.               *)
(***************************************************************************)
\* booking creation of c settles with success in this step
AddSucceeds(c) ==
  /\ pc[c] \in {"add_room", "add_tx"}
  /\ pc'[c] = "add_activity"
  /\ op'[c].result = "success"

\* the room update of c's booking creation is accepted in this step
AddRoomUpdateAccepted(c) ==
  /\ pc[c] = "add_room"
  /\ \/ pc'[c] = "add_tx"
     \/ pc'[c] = "add_activity" /\ op'[c].result = "success"

\* the room carries the dates and the status of the booking p
RoomHoldsBooking(room, p) ==
  /\ room.reservationDate = p.checkIn
  /\ room.checkOutDate = p.checkOut
  /\ room.status = IF p.bookingStatus = "checked-in" THEN "occupied" ELSE "reserved"

(***************************************************************************)
(* C1                                                                      *)
(***************************************************************************)
\* C1 as stated: when a booking creation for room R completes successfully, R holds
\* reservationDate = checkIn, checkOutDate = checkOut and the status of the booking
\* (occupied for checked-in, reserved for reservation).
C1_RoomHoldsBookingAtCompletion ==
  [][\A c \in Clients :
       AddSucceeds(c) => RoomHoldsBooking(rooms'[op[c].roomId], op[c])]_vars

\* C1, amended: R holds these values right after the accepted room update of the
\* creation (the step every successful creation has taken); a later write to R by
\* another session or a cleaning timer is not excluded before completion.
C1_RoomHoldsBookingAfterUpdate ==
  [][\A c \in Clients :
       AddRoomUpdateAccepted(c) => RoomHoldsBooking(rooms'[op[c].roomId], op[c])]_vars

C1_Witness ==
  \E c \in Clients, i \in 1..Len(bookings) :
    /\ op[c].kind = "add" /\ op[c].result = "success"
    /\ bookings[i].bookingStatus = "checked-in"
    /\ RoomHoldsBooking(rooms[bookings[i].roomId], bookings[i])

(***************************************************************************)
(* C2                                                                      *)
(***************************************************************************)
\* C2: a successful booking creation inserts exactly one income transaction with
\* amount = totalPrice and date = checkIn when bookingStatus = checked-in and
\* totalPrice > 0, and none otherwise; no other step of a creation inserts one.
C2_TransactionIffCheckedInAndPriced ==
  [][/\ \A c \in Clients :
          AddSucceeds(c) =>
            transactions' =
              IF op[c].bookingStatus = "checked-in" /\ op[c].totalPrice > 0
              THEN Append(transactions,
                          [type |-> "income", amount |-> op[c].totalPrice,
                           category |-> "Kamar", date |-> op[c].checkIn])
              ELSE transactions
     /\ (\A c \in Clients : ~AddSucceeds(c)) => transactions' = transactions]_vars

C2_Witness ==
  \E c \in Clients :
    /\ op[c].kind = "add" /\ op[c].result = "success"
    /\ Len(bookings) = 1 /\ bookings[1].bookingStatus = "checked-in"
    /\ Len(transactions) = 1
    /\ transactions[1].amount = bookings[1].totalPrice
    /\ transactions[1].date = bookings[1].checkIn

(***************************************************************************)
(* C3                                                                      *)
(***************************************************************************)
\* handleCheckout of c lets the checkout mutation start in this step
CheckoutStarts(c) == pc[c] = "idle" /\ pc'[c] = "co_guest"

\* handleCheckout of c refuses in this step
CheckoutRefused(c) ==
  /\ pc[c] = "idle"
  /\ op'[c] # op[c]
  /\ op'[c].kind = "checkout"
  /\ op'[c].result \in {"refused", "notfound"}

\* C3 as stated: a checkout is let through only for a booking whose stored
\* bookingStatus is checked-in at the time of the call, whatever another staff
\* member has done to the booking before.
C3_RefusedOnStoredStatus ==
  [][\A c \in Clients :
       CheckoutStarts(c) => bookings[op'[c].guestId].bookingStatus = "checked-in"]_vars

\* C3, amended: a checkout is let through only for a booking that the guest list
\* the client has fetched shows as checked-in; otherwise it is refused, and the
\* refusal writes nothing: no booking, room or transaction changes and no timer is set.
C3_RefusedOnFetchedStatus ==
  [][\A c \in Clients :
       /\ CheckoutStarts(c) =>
            /\ op'[c].guestId \in 1..Len(guestsCache[c])
            /\ guestsCache[c][op'[c].guestId] = "checked-in"
       /\ CheckoutRefused(c) =>
            UNCHANGED <<rooms, bookings, transactions, timers, pc>>]_vars

C3_Witness ==
  \E c \in Clients, g \in 1..Len(bookings) :
    /\ op[c].kind = "checkout" /\ op[c].result = "refused"
    /\ g \in 1..Len(guestsCache[c])
    /\ guestsCache[c][g] = "reservation"
    /\ bookings[g].bookingStatus = "reservation"

(***************************************************************************)
(* C4                                                                      *)
(***************************************************************************)
\* the checkout mutation of c returns successfully in this step
CheckoutSucceeds(c) ==
  /\ pc[c] = "co_room"
  /\ pc'[c] = "idle"
  /\ op'[c].result = "success"

\* the cleaning timer <<s, r>> fires in this step while its client is running
TimerElapses(s, r) ==
  /\ <<s, r>> \in timers
  /\ timers' = timers \ {<<s, r>>}
  /\ UNCHANGED <<pc, op, roomsCache, guestsCache>>

ActiveBooking(i) == bookings[i].bookingStatus \in {"reservation", "checked-in"}

\* C5: a client that holds room R in its list of available rooms can submit a
\* booking for R whatever the stored status of R is by then, and once the booking
\* row is inserted the room update can be applied whatever R's stored status is:
\* nothing in a creation reads the stored status of the room.
C5_StaleListStillBooks ==
  \A c \in Clients :
    /\ pc[c] = "idle" =>
         \A o \in roomsCache[c] :
           ENABLED (HandleAddGuest(c) /\ pc'[c] = "add_guest" /\ op'[c].roomId = o.id)
    /\ pc[c] = "add_room" =>
         ENABLED (/\ AddGuestRoomUpdate(c)
                  /\ rooms'[op[c].roomId].status \in {"occupied", "reserved"}
                  /\ rooms'[op[c].roomId].reservationDate = op[c].checkIn)

\* two bookings that hold the same room, the second created by a client whose
\* list still shows the room as available
C5_Witness ==
  \E c \in Clients, i, j \in 1..Len(bookings) :
    /\ i # j
    /\ bookings[i].roomId = bookings[j].roomId
    /\ ActiveBooking(i) /\ ActiveBooking(j)
    /\ op[c].kind = "add" /\ op[c].result = "success"
    /\ \E o \in roomsCache[c] : o.id = bookings[i].roomId /\ o.status = "available"
    /\ rooms[bookings[i].roomId].status # "available"

(***************************************************************************)
(* C6                                                                      *)
(***************************************************************************)
\* C6 as stated: one submission of the booking form inserts at most one booking row
\* (a rejected write is not retried, so no write of the operation is issued twice).
C6_AtMostOneBookingRowPerSubmission ==
  \A c \in Clients : op[c].inserted <= 1

(***************************************************************************)
(* C7                                                                      *)
(***************************************************************************)
\* C7 as stated: a booking creation whose room update or transaction insert was
\* rejected ends with an error at the caller (and writes nothing after the rejection).
C7_RejectedCreationEndsInError ==
  \A c \in Clients :
    (pc[c] = "idle" /\ op[c].kind = "add" /\ op[c].rejected \in {"rooms", "transactions"})
      => op[c].result = "error"

(***************************************************************************)
(* C8                                                                      *)
(***************************************************************************)
\* C8 as stated: a booking creation that has got past the form (and so issues
\* backend writes) has a room of the fetched list selected, nights > 0, and a name
\* and a phone number that are non-empty after trimming.
C8_NoWriteUnlessPreconditions ==
  \A c \in Clients :
    pc[c] \in {"add_guest", "add_room", "add_tx"} =>
      /\ op[c].roomId \in DOMAIN rooms
      /\ op[c].nights > 0
      /\ op[c].name # <<>>
      /\ op[c].phone # <<>>

(***************************************************************************)
(* C9                                                                      *)
(***************************************************************************)
\* the fields of a booking other than bookingStatus
CoreFields(b) == [b EXCEPT !.bookingStatus = "reservation"]

\* C9: no step removes a booking row or changes a field of it other than
\* bookingStatus, and bookingStatus stays as it is or moves one step forward:
\* reservation -> checked-in or checked-in -> checked-out.
C9_BookingsOnlyMoveForward ==
  [][/\ Len(bookings') >= Len(bookings)
     /\ \A i \in 1..Len(bookings) :
          /\ CoreFields(bookings'[i]) = CoreFields(bookings[i])
          /\ \/ bookings'[i].bookingStatus = bookings[i].bookingStatus
             \/ /\ bookings[i].bookingStatus = "reservation"
                /\ bookings'[i].bookingStatus = "checked-in"
             \/ /\ bookings[i].bookingStatus = "checked-in"
                /\ bookings'[i].bookingStatus = "checked-out"]_vars

\* a checkout by the client has gone through next to a booking still reserved
C9_Witness ==
  \E c \in Clients, i, j \in 1..Len(bookings) :
    /\ op[c].kind = "checkout" /\ op[c].result = "success"
    /\ bookings[i].bookingStatus = "checked-out"
    /\ bookings[j].bookingStatus = "reservation"

(***************************************************************************)
(* C10                                                                     *)
(***************************************************************************)
\* C10: a room whose stored status is cleaning is displayed as cleaning for
\* every selected date (and with no date selected), whatever bookings overlap it.
C10_CleaningIsAuthoritative ==
  \A r \in DOMAIN rooms, selectedDate \in SelectableDates :
    rooms[r].status = "cleaning" =>
      /\ GetDisplayStatus(r, rooms[r], bookings, selectedDate) = "cleaning"
      /\ roomsPage.displayStatus # <<>> => roomsPage.displayStatus[r] = "cleaning"

\* a cleaning room with a checked-in booking that overlaps a date
C10_Witness ==
  \E r \in DOMAIN rooms, i \in 1..Len(bookings) :
    /\ rooms[r].status = "cleaning"
    /\ roomsPage.displayStatus # <<>>
    /\ roomsPage.displayStatus[r] = "cleaning"
    /\ i \in ReservationsByRoom(bookings, roomsPage.selectedDate, r)
    /\ bookings[i].bookingStatus = "checked-in"

(***************************************************************************)
(* C11                                                                     *)
(***************************************************************************)
\* booking i is a booking of room r whose stay contains the day, both ends included
OverlapsDay(i, r, day) ==
  /\ bookings[i].roomId = r
  /\ bookings[i].checkIn <= day
  /\ day <= bookings[i].checkOut

\* C11 as stated: a room that is not cleaning and has a checked-in booking whose
\* stay contains the selected day is displayed as occupied, whatever reservations
\* overlap the same day.
C11_CheckedInOverlapIsOccupied ==
  \A r \in DOMAIN rooms, day \in DisplayDays :
    (/\ rooms[r].status # "cleaning"
     /\ \E i \in 1..Len(bookings) :
          OverlapsDay(i, r, day) /\ bookings[i].bookingStatus = "checked-in")
      => GetDisplayStatus(r, rooms[r], bookings, CalendarDate(day)) = "occupied"

(***************************************************************************)
(* C12                                                                     *)
(***************************************************************************)
\* C12 as stated: for a room that is not cleaning, with no booking of the room on
\* the selected day the displayed status is the stored one, and a status reserved
\* derived from the bookings of the day means all of them are reservations.
C12_StoredStatusOrReservationsOnly ==
  \A r \in DOMAIN rooms, day \in DisplayDays :
    rooms[r].status # "cleaning" =>
      LET today == {i \in 1..Len(bookings) : OverlapsDay(i, r, day)}
          shown == GetDisplayStatus(r, rooms[r], bookings, CalendarDate(day))
      IN  /\ today = {} => shown = rooms[r].status
          /\ (today # {} /\ shown = "reserved") =>
               \A i \in today : bookings[i].bookingStatus = "reservation"

(***************************************************************************)
(* C13                                                                     *)
(***************************************************************************)
\* C13 as stated: the bookings counted for a room on the selected day are exactly
\* the bookings of that room with checkIn <= day <= checkOut on calendar days.
C13_OverlapIsInclusiveOnCalendarDays ==
  \A r \in DOMAIN rooms, day \in DisplayDays, i \in 1..Len(bookings) :
    i \in ReservationsByRoom(bookings, CalendarDate(day), r) <=> OverlapsDay(i, r, day)

(***************************************************************************)
(* C14                                                                     *)
(***************************************************************************)
\* the statuses the page derives for a selected date
DisplayedFor(date) ==
  [r \in DOMAIN rooms |-> GetDisplayStatus(r, rooms[r], bookings, date)]

\* C14: no step of the rooms page (opening it, selecting a date, rendering again)
\* changes a stored room, a booking, a transaction or a query cache; what is
\* displayed is a function of the rooms, the bookings and the selected date alone,
\* and a render with the same date displays the same statuses again.
C14_DerivationIsPure ==
  [][/\ UNCHANGED <<rooms, bookings, transactions, roomsCache, guestsCache>>
     /\ roomsPage'.timezoneOffset = roomsPage.timezoneOffset
     /\ roomsPage'.displayStatus = DisplayedFor(roomsPage'.selectedDate)
     /\ (roomsPage.displayStatus # <<>> /\ roomsPage'.selectedDate = roomsPage.selectedDate)
          => roomsPage'.displayStatus = roomsPage.displayStatus]_vars

\* a date is selected for which the page displays a status other than the stored one
C14_Witness ==
  /\ roomsPage.displayStatus # <<>>
  /\ roomsPage.selectedDate \in {CalendarDate(d) : d \in DisplayDays}
  /\ \E r \in DOMAIN rooms : roomsPage.displayStatus[r] # rooms[r].status

(***************************************************************************)
(* C15                                                                     *)
(***************************************************************************)
\* C15: for all dates of a date picker, nights is the number of days from checkIn to
\* checkOut (at least 1) when checkIn is before checkOut and 0 when it is not or a
\* date is missing; the price of a stay in a room of the list is nights times the
\* price of the room, also for a price of 0; a form with nights = 0 is not
\* accepted, so a creation under way carries nights >= 1 and that total.
C15_StayCalculator ==
  /\ \A checkInDate \in Days \cup FormDays \cup {0}, checkOutDate \in Days \cup FormDays \cup {0} :
       /\ Nights(checkInDate, checkOutDate) =
            IF checkInDate # 0 /\ checkOutDate # 0 /\ checkInDate < checkOutDate
            THEN checkOutDate - checkInDate
            ELSE 0
       /\ \A c \in Clients : \A o \in roomsCache[c] :
            /\ CalculatedPrice(o, Nights(checkInDate, checkOutDate)) =
                 Nights(checkInDate, checkOutDate) * o.price
            /\ Nights(checkInDate, checkOutDate) = 0 => ~FormAccepted(o.typeId, o, 0)
  /\ \A c \in Clients :
       pc[c] \in {"add_guest", "add_room", "add_tx"} =>
         /\ op[c].nights >= 1
         /\ op[c].nights = op[c].checkOut - op[c].checkIn
         /\ op[c].totalPrice = op[c].nights * op[c].pricePerNight

\* a stay of two nights at a price above 0 is stored
C15_Witness ==
  \E i \in 1..Len(bookings) :
    /\ bookings[i].checkIn = 1 /\ bookings[i].checkOut = 3
    /\ bookings[i].nights = 2
    /\ bookings[i].pricePerNight > 0
    /\ bookings[i].totalPrice = 2 * bookings[i].pricePerNight

(***************************************************************************)
(* C16                                                                     *)
(***************************************************************************)
\* C16: the form takes pricePerNight from the room of the client's list at
\* submission; a row added to the guests table carries that pricePerNight and
\* totalPrice = nights x pricePerNight; and no step, an edit of the room's price
\* included, changes the pricePerNight or totalPrice of a row that exists.
C16_PriceIsSnapshot ==
  [][/\ \A c \in Clients :
          (pc[c] = "idle" /\ pc'[c] = "add_guest") =>
            \E o \in roomsCache[c] :
              o.id = op'[c].roomId /\ op'[c].pricePerNight = o.price
     /\ \A i \in 1..Len(bookings) :
          /\ bookings'[i].pricePerNight = bookings[i].pricePerNight
          /\ bookings'[i].totalPrice = bookings[i].totalPrice
     /\ \A i \in (Len(bookings) + 1)..Len(bookings') :
          /\ bookings'[i].totalPrice = bookings'[i].nights * bookings'[i].pricePerNight
          /\ \E c \in Clients :
               pc[c] = "add_guest" /\ bookings'[i].pricePerNight = op[c].pricePerNight]_vars

\* a booking whose room has been given another price since: the booking keeps its own
C16_Witness ==
  \E i \in 1..Len(bookings) :
    /\ bookings[i].pricePerNight = 500
    /\ rooms[bookings[i].roomId].price = 0
    /\ bookings[i].totalPrice = bookings[i].nights * bookings[i].pricePerNight

(***************************************************************************)
(* C20                                                                     *)
(***************************************************************************)
\* C20 as stated: the room form writes nothing when the price submitted is not
\* positive, so no room is ever stored with a price that is not above 0.
C20_NoRoomWithoutPositivePrice ==
  \A r \in DOMAIN rooms : rooms[r].price > 0

(***************************************************************************)
(* C17                                                                     *)
(***************************************************************************)
\* C17: every room of the list the client holds has status available there; the
\* type selector offers exactly the types of those rooms; and with a type selected
\* the room selector offers exactly the rooms of the list of that type, all of
\* them available.
C17_OfferedRoomsAreAvailable ==
  \A c \in Clients :
    /\ \A o \in roomsCache[c] : o.status = "available"
    /\ {t.id : t \in RoomTypeOptions(c)} = {o.typeId : o \in roomsCache[c]}
    /\ \A selectedRoomTypeId \in RoomTypes \cup {""} :
         /\ AvailableRoomsForSelectedType(c, selectedRoomTypeId) =
              {o \in roomsCache[c] : o.typeId = selectedRoomTypeId}
         /\ \A o \in AvailableRoomsForSelectedType(c, selectedRoomTypeId) :
              o.status \notin {"occupied", "reserved", "cleaning"}

\* a room has been booked and the list fetched since: the form offers the other
\* room only, under its own type
C17_Witness ==
  \E c \in Clients :
    /\ rooms["r1"].status \in {"occupied", "reserved"}
    /\ AvailableRoomsForSelectedType(c, "t1") = {}
    /\ {o.id : o \in AvailableRoomsForSelectedType(c, "t2")} = {"r2"}
    /\ {t.id : t \in RoomTypeOptions(c)} = {"t2"}

(***************************************************************************)
(* C18                                                                     *)
(***************************************************************************)
\* the callback of the cleaning timer <<s, r>> runs in this step (its client is
\* running) and room r does not come out of it reset
ResetRejected(s, r) ==
  /\ <<s, r>> \in timers
  /\ <<s, r>> \notin timers'
  /\ UNCHANGED <<pc, op, roomsCache, guestsCache>>
  /\ ~(/\ rooms'[r].status = "available"
       /\ rooms'[r].reservationDate = 0
       /\ rooms'[r].checkOutDate = 0)

\* C18: when the reset of room r is rejected, no room changes (a room in cleaning
\* stays in cleaning with its dates), the timer is gone and no other timer is set;
\* and a cleaning timer is only ever set by a step that puts its room in cleaning,
\* for a client by the success of a checkout, so the reset is not attempted again.
C18_RejectedResetIsFinal ==
  [][/\ \A s \in Sessions, r \in DOMAIN rooms :
          ResetRejected(s, r) =>
            /\ rooms' = rooms
            /\ timers' = timers \ {<<s, r>>}
     /\ \A t \in timers' \ timers :
          /\ t[1] \in Sessions
          /\ rooms'[t[2]].status = "cleaning"
          /\ t[1] \in Clients => CheckoutSucceeds(t[1])]_vars

\* a room left in cleaning with its dates and no timer pending, after a checkout
C18_Witness ==
  \E c \in Clients, i \in 1..Len(bookings) :
    /\ op[c].kind = "checkout" /\ op[c].result = "success"
    /\ bookings[i].bookingStatus = "checked-out"
    /\ rooms[bookings[i].roomId].status = "cleaning"
    /\ rooms[bookings[i].roomId].reservationDate = bookings[i].checkIn
    /\ timers = {}

(***************************************************************************)
(* C19                                                                     *)
(***************************************************************************)
\* C19 as stated: after a successful booking creation or checkout every query of
\* the client that reads rooms, guests, transactions or aggregates of them has
\* been invalidated.
C19_EveryReaderInvalidated ==
  \A c \in Clients :
    op[c].result = "success" => op[c].invalidated = QueryKeys

(***************************************************************************)
(* C22                                                                     *)
(***************************************************************************)
\* the checkout of c settles in this step on a rejected room update
CheckoutRoomUpdateRejected(c) ==
  /\ pc[c] = "co_room"
  /\ pc'[c] = "idle"
  /\ op'[c].result = "error"

\* C22 as stated: when the room update of a checkout is rejected, the caller
\* receives the rejection error, the booking stays checked-out, no room changes
\* and no reset is scheduled.
C22_RejectedRoomUpdateIsReported ==
  [][\A c \in Clients :
       CheckoutRoomUpdateRejected(c) =>
         /\ op'[c].err = "error"
         /\ bookings'[op[c].guestId].bookingStatus = "checked-out"
         /\ rooms' = rooms
         /\ timers' = timers]_vars

(***************************************************************************)
(* C23                                                                     *)
(***************************************************************************)
\* a step that changes a room and is no step of a booking creation, a checkout
\* or a cleaning timer
RoomChangedByHand ==
  /\ rooms' # rooms
  /\ UNCHANGED <<pc, op, timers, bookings, transactions>>

\* C23: a manual status update can set each of the four statuses on every room,
\* whatever its status and its bookings are; a room changed by hand differs in
\* its status only, and no other room, booking or transaction changes with it.
C23_ManualUpdateChangesStatusOnly ==
  [][/\ \A r \in DOMAIN rooms, s \in RoomStatus : ENABLED UpdateRoomStatus(r, s)
     /\ RoomChangedByHand =>
          \E r \in DOMAIN rooms :
            /\ rooms'[r].status \in RoomStatus
            /\ rooms' = [rooms EXCEPT ![r].status = rooms'[r].status]]_vars

\* a room set to available by hand while a booking holds it: the dates stay
C23_Witness ==
  \E i \in 1..Len(bookings) :
    /\ ActiveBooking(i)
    /\ rooms[bookings[i].roomId].status = "available"
    /\ rooms[bookings[i].roomId].reservationDate = bookings[i].checkIn
    /\ rooms[bookings[i].roomId].checkOutDate = bookings[i].checkOut
    /\ timers = {}
    /\ \A c \in Clients : pc[c] = "idle" /\ op[c].result = "success"

(***************************************************************************)
(* C24                                                                     *)
(***************************************************************************)
\* C24 as stated: no room with stored status available is the room of a booking
\* that is a reservation or checked-in.
C24_AvailableRoomHasNoActiveBooking ==
  \A i \in 1..Len(bookings) :
    ActiveBooking(i) => rooms[bookings[i].roomId].status # "available"

(***************************************************************************)
(* C25                                                                     *)
(***************************************************************************)
\* C25 as stated: when the cleaning timer of room r fires and the room is not in
\* cleaning any more, the room is left as it is.
C25_ResetOnlyWhileCleaning ==
  [][\A s \in Sessions, r \in DOMAIN rooms :
       (TimerElapses(s, r) /\ rooms[r].status # "cleaning") => rooms'[r] = rooms[r]]_vars

(***************************************************************************)
(* C26                                                                     *)
(***************************************************************************)
\* C26 as stated: a room that is available is displayed as available on every
\* day on which all bookings of the room whose stay contains the day are
\* checked-out.
C26_CheckedOutBookingIsNotDisplayed ==
  \A r \in DOMAIN rooms, day \in DisplayDays :
    (/\ rooms[r].status = "available"
     /\ \E i \in 1..Len(bookings) : OverlapsDay(i, r, day)
     /\ \A i \in 1..Len(bookings) :
          OverlapsDay(i, r, day) => bookings[i].bookingStatus = "checked-out")
      => GetDisplayStatus(r, rooms[r], bookings, CalendarDate(day)) = "available"

(***************************************************************************)
(* C27                                                                     *)
(***************************************************************************)
\* C27 as stated, for a staff member who keeps using every operation: a booking
\* that is a reservation becomes checked-in.
C27_ReservationBecomesCheckedIn ==
  \A i \in 1..MaxFormBookings :
    (i <= Len(bookings) /\ bookings[i].bookingStatus = "reservation")
      ~> (i <= Len(bookings) /\ bookings[i].bookingStatus = "checked-in")

\* no step of any operation takes a booking from reservation to another status
ReservationIsFinal ==
  [][\A i \in 1..Len(bookings) :
       bookings[i].bookingStatus = "reservation" =>
         bookings'[i].bookingStatus = "reservation"]_vars

(***************************************************************************)
(* C21                                                                     *)
(***************************************************************************)
\* the booking creation of c settles with an error in this step
AddFails(c) ==
  /\ pc[c] \in {"add_guest", "add_room", "add_tx"}
  /\ pc'[c] = "idle"
  /\ op'[c].result = "error"

\* handleAddGuest of c is at recordActivity in this step
ActivityStep(c) == pc[c] = "add_activity" /\ pc'[c] = "idle"

\* C21: a creation that succeeds goes on to record the activity, and only such a
\* creation does; a creation that fails, and every other step, leaves the
\* activities as they are.  The activity step appends nothing or one entry of the
\* acting user; whether or not the entry is recorded, the creation stays a
\* success and no booking, room or transaction changes.
C21_ActivityAfterSuccessfulCreation ==
  [][\A c \in Clients :
       /\ AddSucceeds(c) <=> (pc[c] # "add_activity" /\ pc'[c] = "add_activity")
       /\ AddFails(c) => userActivities' = userActivities
       /\ ~ActivityStep(c) => userActivities' = userActivities
       /\ ActivityStep(c) =>
            /\ op[c].result = "success"
            /\ op'[c] = op[c]
            /\ UNCHANGED <<rooms, bookings, transactions>>
            /\ \/ userActivities' = userActivities
               \/ /\ Len(userActivities') = Len(userActivities) + 1
                  /\ SubSeq(userActivities', 1, Len(userActivities)) = userActivities
                  /\ userActivities'[Len(userActivities')].userId = currentUser[c].id]_vars

\* a creation that has succeeded and whose activity could not be recorded
C21_Witness ==
  \E c \in Clients :
    /\ pc[c] = "idle"
    /\ op[c].kind = "add" /\ op[c].result = "success"
    /\ Len(bookings) = 1
    /\ rooms[bookings[1].roomId].status \in {"occupied", "reserved"}
    /\ userActivities = <<>>

(***************************************************************************)
(* C28                                                                     *)
(***************************************************************************)
\* C28 as stated: a creation whose booking insert the policies have accepted is
\* not kept by the policies from its room update or from its income transaction:
\* at the room update the room can be marked, and at the transaction insert the
\* transaction can be inserted.
C28_PermittedRoleCompletesCreation ==
  \A c \in Clients :
    /\ pc[c] = "add_room" =>
         ENABLED (/\ AddGuestRoomUpdate(c)
                  /\ rooms'[op[c].roomId].reservationDate = op[c].checkIn
                  /\ rooms'[op[c].roomId].status \in {"occupied", "reserved"})
    /\ pc[c] = "add_tx" =>
         ENABLED (AddGuestTxInsert(c) /\ Len(transactions') = Len(transactions) + 1)

(***************************************************************************)
(* The accounts: two browsers, each the browser of one account, and the    *)
(* operations of the AuthProvider on sessions and profiles.                *)
(***************************************************************************)
Browsers == {"c1", "c2"}

\* the account that signs in from browser c
AccountOf(c) == IF c = "c1" THEN "u1" ELSE "u2"

\* VITE_SUPABASE_SERVICE_ROLE_KEY is set: supabaseAdmin is not null
ServiceRoleKeyConfigured == TRUE

\* loadAllUsers: every authenticated session may read every profile
LoadAllUsers(table) == table

\* the outcome of an operation of the AuthProvider, as its caller sees it
AuthOp(kind, result) == [NoOp EXCEPT !.kind = kind, !.result = result]

\* the rest of the table after auth.admin.deleteUser(userId): the activities
\* of the user go with the profile (on delete cascade)
DeleteUser(table, userId) == [u \in DOMAIN table \ {userId} |-> table[u]]

ActivitiesWithout(userId) ==
  LET Others(row) == row.userId # userId IN SelectSeq(userActivities, Others)

\* recordActivityInternal(userId, message) of the session of uid, with the
\* profiles, the activities and the state of the AuthProvider it starts from:
\* the insert is rejected (thrown), or it is accepted and, when reload is
\* set, followed by loadCurrentUser(userId), which may throw
RecordActivityInternal(table, activities, uid, userId, reload, current, list, message) ==
  LET accepted == /\ Len(activities) < MaxActivities
                  /\ userId \in DOMAIN table
                  /\ PolicyAccepts("user_activities", uid, userId)
      added == Append(activities, ActivityRow(userId, message))
      loaded == LoadCurrentUserFrom(table, list, userId)
  IN {[userActivities |-> activities, currentUser |-> current, users |-> list,
       thrown |-> TRUE]}
     \cup (IF accepted /\ reload
             THEN {[userActivities |-> added, currentUser |-> loaded.currentUser,
                    users |-> loaded.users, thrown |-> FALSE],
                   [userActivities |-> added, currentUser |-> current, users |-> list,
                    thrown |-> TRUE]}
           ELSE IF accepted
             THEN {[userActivities |-> added, currentUser |-> current, users |-> list,
                    thrown |-> FALSE]}
           ELSE {})

AccountsUnchanged ==
  UNCHANGED <<rooms, bookings, transactions, roomsCache, guestsCache, pc, timers, roomsPage>>

\* initialise / onAuthStateChange: the AuthProvider loads the user of the
\* session and, for an owner, all users; a failure clears both
Initialise(c) ==
  /\ \/ LET loaded == LoadCurrentUserFrom(profiles, users[c], authSession[c]) IN
        /\ currentUser' = [currentUser EXCEPT ![c] = loaded.currentUser]
        /\ users' = [users EXCEPT ![c] =
                       IF loaded.currentUser.role = "owner"
                         THEN LoadAllUsers(profiles) ELSE loaded.users]
     \/ /\ currentUser' = [currentUser EXCEPT ![c] = NoUser]
        /\ users' = [users EXCEPT ![c] = NoUsers]
  /\ UNCHANGED <<profiles, userActivities, authSession, op>>
  /\ AccountsUnchanged

\* login from the login page of a browser without a session
Login(c) ==
  /\ authSession[c] = ""
  /\ currentUser[c] = NoUser
  /\ LET userId == AccountOf(c) IN
     \/ \* signInWithPassword fails
        /\ op' = [op EXCEPT ![c] = AuthOp("login", "error")]
        /\ UNCHANGED <<userActivities, authSession, currentUser, users>>
     \/ /\ userId \in DOMAIN profiles
        /\ authSession' = [authSession EXCEPT ![c] = userId]
        /\ \/ \* loadCurrentUser or loadAllUsers throws
              /\ op' = [op EXCEPT ![c] = AuthOp("login", "error")]
              /\ UNCHANGED <<userActivities, currentUser, users>>
           \/ LET profile == PublicUser(userId)
                  list == IF profile.role = "owner" THEN LoadAllUsers(profiles)
                          ELSE LoadCurrentUser(c, userId).users
              IN \E o \in RecordActivityInternal(profiles, userActivities, userId, userId,
                                                 FALSE, profile, list, "Masuk ke sistem.") :
                   /\ userActivities' = o.userActivities
                   /\ currentUser' = [currentUser EXCEPT ![c] = o.currentUser]
                   /\ users' = [users EXCEPT ![c] = o.users]
                   /\ op' = [op EXCEPT ![c] =
                               AuthOp("login", IF o.thrown THEN "error" ELSE "success")]
  /\ UNCHANGED profiles
  /\ AccountsUnchanged

\* logout: returns at once without a current user; records the activity,
\* and only when that has not thrown signs out and clears the state
Logout(c) ==
  /\ currentUser[c] # NoUser
  /\ \E o \in RecordActivityInternal(profiles, userActivities, authSession[c],
                                     currentUser[c].id, TRUE, currentUser[c], users[c],
                                     "Keluar dari sistem.") :
       /\ userActivities' = o.userActivities
       /\ IF o.thrown
            THEN /\ currentUser' = [currentUser EXCEPT ![c] = o.currentUser]
                 /\ users' = [users EXCEPT ![c] = o.users]
                 /\ op' = [op EXCEPT ![c] = AuthOp("logout", "error")]
                 /\ UNCHANGED authSession
            ELSE /\ authSession' = [authSession EXCEPT ![c] = ""]
                 /\ currentUser' = [currentUser EXCEPT ![c] = NoUser]
                 /\ users' = [users EXCEPT ![c] = NoUsers]
                 /\ op' = [op EXCEPT ![c] = AuthOp("logout", "success")]
  /\ UNCHANGED profiles
  /\ AccountsUnchanged

\* handleRoleChange(user, role) for a user of the loaded list, then
\* updateUserRole(user.id, role)
UpdateUserRole(c, userId, role) ==
  /\ userId \in DOMAIN users[c]
  /\ users[c][userId] # role
  /\ IF \/ currentUser[c] = NoUser
        \/ currentUser[c].role # "owner"
        \/ userId = currentUser[c].id /\ role # "owner"
       THEN /\ op' = [op EXCEPT ![c] = AuthOp("updateUserRole", "error")]
            /\ UNCHANGED <<profiles, userActivities, currentUser, users>>
       ELSE \/ \* the update returns an error
               /\ op' = [op EXCEPT ![c] = AuthOp("updateUserRole", "error")]
               /\ UNCHANGED <<profiles, userActivities, currentUser, users>>
            \/ LET table == IF /\ userId \in DOMAIN profiles
                               /\ PolicyAccepts("profiles", authSession[c], userId)
                              THEN [profiles EXCEPT ![userId] = role] ELSE profiles
                   self == currentUser[c].id
                   loaded == IF userId = self
                               THEN LoadCurrentUserFrom(table, users[c], userId)
                               ELSE [currentUser |-> currentUser[c],
                                     users |-> LoadAllUsers(table)]
               IN /\ profiles' = table
                  /\ \/ \* loadCurrentUser or loadAllUsers throws
                        /\ op' = [op EXCEPT ![c] = AuthOp("updateUserRole", "error")]
                        /\ UNCHANGED <<userActivities, currentUser, users>>
                     \/ \E o \in RecordActivityInternal(table, userActivities,
                                   authSession[c], self, TRUE, loaded.currentUser,
                                   loaded.users, "Memperbarui role pengguna") :
                          /\ userActivities' = o.userActivities
                          /\ currentUser' = [currentUser EXCEPT ![c] = o.currentUser]
                          /\ users' = [users EXCEPT ![c] = o.users]
                          /\ op' = [op EXCEPT ![c] =
                                      AuthOp("updateUserRole",
                                             IF o.thrown THEN "error" ELSE "success")]
  /\ UNCHANGED authSession
  /\ AccountsUnchanged

\* handleRemove(user) for a user of the loaded list, then removeUser(user.id)
RemoveUser(c, userId) ==
  /\ userId \in DOMAIN users[c]
  /\ IF \/ currentUser[c] = NoUser
        \/ currentUser[c].role # "owner"
        \/ userId = currentUser[c].id
        \/ ~ServiceRoleKeyConfigured
       THEN /\ op' = [op EXCEPT ![c] = AuthOp("removeUser", "error")]
            /\ UNCHANGED <<profiles, userActivities, currentUser, users>>
       ELSE \/ \* auth.admin.deleteUser returns an error
               /\ op' = [op EXCEPT ![c] = AuthOp("removeUser", "error")]
               /\ UNCHANGED <<profiles, userActivities, currentUser, users>>
            \/ /\ userId \in DOMAIN profiles
               /\ LET table == DeleteUser(profiles, userId)
                      self == currentUser[c].id
                  IN /\ profiles' = table
                     /\ \/ \* loadAllUsers throws
                           /\ op' = [op EXCEPT ![c] = AuthOp("removeUser", "error")]
                           /\ userActivities' = ActivitiesWithout(userId)
                           /\ UNCHANGED <<currentUser, users>>
                        \/ \E o \in RecordActivityInternal(table, ActivitiesWithout(userId),
                                      authSession[c], self, TRUE, currentUser[c],
                                      LoadAllUsers(table), "Menghapus pengguna") :
                             /\ userActivities' = o.userActivities
                             /\ currentUser' = [currentUser EXCEPT ![c] = o.currentUser]
                             /\ users' = [users EXCEPT ![c] = o.users]
                             /\ op' = [op EXCEPT ![c] =
                                         AuthOp("removeUser",
                                                IF o.thrown THEN "error" ELSE "success")]
  /\ UNCHANGED authSession
  /\ AccountsUnchanged

\* every account has a profile, at least one of them is an owner, and each
\* account is signed in from its browser with the auth context loaded
InitAccounts ==
  /\ rooms = [r \in {"r1"} |-> NewRoom(500, "t1")]
  /\ bookings = <<>>
  /\ transactions = <<>>
  /\ roomsCache = [c \in Clients |-> {}]
  /\ guestsCache = [c \in Clients |-> <<>>]
  /\ pc = [c \in Clients |-> "idle"]
  /\ op = [c \in Browsers |-> NoOp]
  /\ timers = {}
  /\ roomsPage = RoomsPageClosed
  /\ profiles \in [Users -> Roles]
  /\ \E u \in Users : profiles[u] = "owner"
  /\ userActivities = <<>>
  /\ authSession = [c \in Browsers |-> AccountOf(c)]
  /\ currentUser = [c \in Browsers |-> PublicUser(AccountOf(c))]
  /\ users = [c \in Browsers |->
                IF profiles[AccountOf(c)] = "owner" THEN LoadAllUsers(profiles)
                ELSE [u \in {AccountOf(c)} |-> profiles[u]]]

NextAccounts ==
  \/ \E c \in Browsers : Initialise(c)
  \/ \E c \in Browsers : Login(c)
  \/ \E c \in Browsers : Logout(c)
  \/ \E c \in Browsers, userId \in Users, role \in Roles : UpdateUserRole(c, userId, role)
  \/ \E c \in Browsers, userId \in Users : RemoveUser(c, userId)

SpecAccounts == InitAccounts /\ [][NextAccounts]_vars

(***************************************************************************)
(* C29                                                                     *)
(***************************************************************************)
\* a profile with role owner exists
OwnerExists == \E u \in DOMAIN profiles : profiles[u] = "owner"

\* the step ends a call of updateUserRole or removeUser of browser c
AccountCall(c) ==
  /\ op'[c] # op[c]
  /\ op'[c].kind \in {"updateUserRole", "removeUser"}

\* C29: as long as an owner profile exists, every step of updateUserRole,
\* removeUser or any other operation of the accounts leaves an owner profile;
\* a call of a user whose profile is not an owner's changes no profile, and a
\* call of an owner leaves the caller's own profile in place with role owner.
C29_AnOwnerRemains ==
  [][/\ OwnerExists => OwnerExists'
     /\ \A c \in Browsers :
          AccountCall(c) =>
            IF HasRole(authSession[c], {"owner"})
              THEN /\ authSession[c] \in DOMAIN profiles'
                   /\ profiles'[authSession[c]] = "owner"
              ELSE profiles' = profiles]_vars

(***************************************************************************)
(* C30                                                                     *)
(***************************************************************************)
\* the step ends a call of logout of browser c, made with a current user
LogoutCall(c) ==
  /\ currentUser[c] # NoUser
  /\ op'[c] # op[c]
  /\ op'[c].kind = "logout"

\* C30: every call of logout made while a user is logged in ends the backend
\* session of the browser and clears currentUser and users, whether or not
\* the logout activity was recorded.
C30_LogoutAlwaysSignsOut ==
  [][\A c \in Browsers :
       LogoutCall(c) =>
         /\ authSession'[c] = ""
         /\ currentUser'[c] = NoUser
         /\ users'[c] = NoUsers]_vars
====
